---- MODULE Spec2Model ----
\* A model of the SQLite persistence adapter (src/persistence_adapter/sqlite.rs)
\* and of the schema contract it is generic in (src/lib.rs).
\*
\* The 64-bit integers of the program are modelled by Width-bit words: u64 is
\* 0 .. 2^Width - 1, i64 is -2^(Width-1) .. 2^(Width-1) - 1, and the casts
\* between them wrap modulo 2^Width exactly as `as i64` / `as u64` do.
\* An f32 is modelled as a point of a coarse grid and an f64 as a point of a
\* grid twice as fine; `as f64` embeds, `as f32` rounds.
\* Text and blobs are sequences of byte values, compared byte-wise (memcmp),
\* which is both Rust's ordering of String / Vec<u8> and SQLite's BINARY
\* collation.
EXTENDS Integers, Sequences, FiniteSets, TLC

VARIABLES keyKind,   \* schema: the declared kind of the key field
          strict,    \* schema: whether deserialize_data validates the record
          keyCheck,  \* schema: whether deserialize_key validates the key
          columns,   \* the table's columns, <<>> while the table does not exist
          rows,      \* the table's rows
          before,    \* the rows before the last operation
          last,      \* the last operation, its arguments and its result
          panicked,  \* the process was aborted by a panic
          scanner,   \* the statement of a scan that a caller is stepping through
          tables,    \* the rows the table has held since that scan was opened
          storing    \* the statement of a store a caller is in the middle of

vars == <<keyKind, strict, keyCheck, columns, rows, before, last, panicked,
          scanner, tables, storing>>

\* ---------------------------------------------------------------- bounds
Width == 3
MaxStart == 1
MaxLimit == 1
MaxConcurrentWrites == 2
\* the longest text or blob the connection accepts in a bind, in bytes
\* (SQLITE_LIMIT_LENGTH)
LengthLimit == 2

\* ------------------------------------------------------- option, helpers
None == <<>>
Some(x) == <<x>>

Min(a, b) == IF a < b THEN a ELSE b

RECURSIVE SeqLess(_, _)
\* byte-wise lexicographic order, a proper prefix first
SeqLess(a, b) ==
    IF b = <<>> THEN FALSE
    ELSE IF a = <<>> THEN TRUE
    ELSE IF Head(a) # Head(b) THEN Head(a) < Head(b)
    ELSE SeqLess(Tail(a), Tail(b))

InSeq(x, s) == \E i \in 1..Len(s) : s[i] = x

\* ------------------------------------------------ PersistenceData (lib.rs)
Kinds == {"String", "Bytes", "Integer", "UnsignedInteger", "Float", "Double"}

\* one PersistenceData value: the variant and its payload (n for the numeric
\* variants, s for String and Bytes)
PersistenceData(kind, n, s) == [kind |-> kind, n |-> n, s |-> s]

PersistenceType(name, kind) == [name |-> name, kind |-> kind]

get_name(t) == t.name

\* Query: the predicate tree; a and b hold the sub-predicates of a node,
\* name and val the field and the constant of a leaf
NoValue == PersistenceData("Integer", 0, <<>>)

Or(a, b) == [op |-> "Or", a |-> <<a>>, b |-> <<b>>, name |-> "", val |-> NoValue]
And(a, b) == [op |-> "And", a |-> <<a>>, b |-> <<b>>, name |-> "", val |-> NoValue]
Not(a) == [op |-> "Not", a |-> <<a>>, b |-> <<>>, name |-> "", val |-> NoValue]
Equals(name, v) == [op |-> "Equals", a |-> <<>>, b |-> <<>>, name |-> name, val |-> v]
GreaterThan(name, v) ==
    [op |-> "GreaterThan", a |-> <<>>, b |-> <<>>, name |-> name, val |-> v]
LessThan(name, v) ==
    [op |-> "LessThan", a |-> <<>>, b |-> <<>>, name |-> name, val |-> v]

\* ------------------------------------------------------------- the casts
TwoW == 2 ^ Width
Half == 2 ^ (Width - 1)
UMax == TwoW - 1

\* a faulty cast: `u as i32 as i64`, which keeps half the bits
CastI64Narrow(u) == IF u % Half >= Half \div 2 THEN (u % Half) - Half ELSE u % Half

\* `u as i64`
CastI64(u) == IF u >= Half THEN u - TwoW ELSE u

\* a faulty cast: a negative integer is read as 0
CastU64Clamped(i) == IF i < 0 THEN 0 ELSE i

\* `i as u64`
CastU64(i) == IF i < 0 THEN i + TwoW ELSE i

\* `f as f64`: every f32 is an f64; the f64 grid is twice as fine
CastF64(f) == 2 * f

\* `d as f32`: round to the nearest f32, ties to even
CastF32(d) ==
    IF d % 2 = 0 THEN d \div 2
    ELSE IF ((d - 1) \div 2) % 2 = 0 THEN (d - 1) \div 2 ELSE (d + 1) \div 2

\* --------------------------------------------------- the driver's values
\* a value as SQLite holds it: storage class and payload
Stored(cls, n, s) == [cls |-> cls, n |-> n, s |-> s]

\* a parameter no bind call has set
Null == Stored("NULL", 0, <<>>)

\* the bind dispatch over the six variants
BindValue(v) ==
    CASE v.kind = "String"          -> Stored("TEXT", 0, v.s)
      [] v.kind = "Bytes"           -> Stored("BLOB", 0, v.s)
      [] v.kind = "Integer"         -> Stored("INTEGER", v.n, <<>>)
      [] v.kind = "UnsignedInteger" -> Stored("INTEGER", CastI64(v.n), <<>>)
      [] v.kind = "Float"           -> Stored("REAL", CastF64(v.n), <<>>)
      [] v.kind = "Double"          -> Stored("REAL", v.n, <<>>)

\* statement.bind returns an error: the value is longer than the connection
\* accepts
BindFails(v) == v.cls \in {"TEXT", "BLOB"} /\ Len(v.s) > LengthLimit

\* the parameter after `let _ = statement.bind(..)`: a bind that fails leaves
\* the parameter as it was, NULL
Bind(v) == IF BindFails(BindValue(v)) THEN Null ELSE BindValue(v)

\* the column type the DDL declares for a field kind
ColumnType(kind) ==
    CASE kind = "String"                         -> "TEXT"
      [] kind = "Bytes"                          -> "BLOB"
      [] kind \in {"Integer", "UnsignedInteger"} -> "INTEGER"
      [] kind \in {"Float", "Double"}            -> "REAL"

\* SQLite's comparison of two values of one storage class: numbers by value,
\* text and blobs byte-wise; a comparison with NULL is never true
SqlLess(a, b) ==
    CASE a.cls \in {"INTEGER", "REAL"} /\ b.cls = a.cls -> a.n < b.n
      [] a.cls \in {"TEXT", "BLOB"} /\ b.cls = a.cls    -> SeqLess(a.s, b.s)
      [] a.cls = "NULL" \/ b.cls = "NULL"               -> FALSE

SqlEq(a, b) ==
    CASE a.cls \in {"INTEGER", "REAL"} /\ b.cls = a.cls -> a.n = b.n
      [] a.cls \in {"TEXT", "BLOB"} /\ b.cls = a.cls    -> a.s = b.s
      [] a.cls = "NULL" \/ b.cls = "NULL"               -> FALSE

\* what a value bound to a column of the given declared type is stored as:
\* a value of the column's own storage class is stored unchanged
ApplyAffinity(type, v) ==
    CASE v.cls = type   -> v
      [] v.cls = "NULL" -> v

\* --------------------------------------------------------- the schema
\* PersistenceSpec<Key, Data>: the schema of src/lib.rs with the key kind as a
\* parameter, two value fields, and an optional validation in deserialize_data
key_field == "key"

fields == << PersistenceType("key", keyKind),
             PersistenceType("integer", "Integer"),
             PersistenceType("unsigned_integer", "UnsignedInteger") >>

FieldNames == { get_name(fields[i]) : i \in 1..Len(fields) }

FieldKind(name) ==
    fields[CHOOSE i \in 1..Len(fields) : get_name(fields[i]) = name].kind

serialize_key(k) == PersistenceData(keyKind, k.n, k.s)

deserialize_key(v) ==
    IF v.kind # keyKind THEN None
    ELSE IF keyCheck /\ Len(v.s) > 1 THEN None
    ELSE Some([n |-> v.n, s |-> v.s])

\* the map holds an entry for each field the record has a value for; a
\* record can carry a key of its own, and can name the variant its
\* unsigned_integer is serialized as
serialize_data(d) ==
    IF ~d.storable THEN None
    ELSE Some([ f \in FieldNames \cap DOMAIN d |->
                  CASE f = key_field -> serialize_key(d[key_field])
                    [] f = "integer" -> PersistenceData("Integer", d.integer, <<>>)
                    [] f = "unsigned_integer" ->
                         PersistenceData(IF "variant" \in DOMAIN d THEN d.variant
                                         ELSE "UnsignedInteger",
                                         d.unsigned_integer, <<>>) ])

deserialize_data(m) ==
    IF ~("integer" \in DOMAIN m /\ m["integer"].kind = "Integer") THEN None
    ELSE IF ~("unsigned_integer" \in DOMAIN m
              /\ m["unsigned_integer"].kind = "UnsignedInteger") THEN None
    ELSE IF strict /\ m["unsigned_integer"].n >= Half THEN None
    ELSE Some([integer |-> m["integer"].n,
               unsigned_integer |-> m["unsigned_integer"].n,
               storable |-> TRUE])

\* ------------------------------------------------------------ inputs
\* the keys, records, `only` lists and page arguments the operations are
\* called with
Key(n, s) == [n |-> n, s |-> s]

Keys ==
    CASE keyKind = "String"          -> {Key(0, <<116>>), Key(0, <<116, 49>>)}
      [] keyKind = "Bytes"           -> {Key(0, <<0>>), Key(0, <<0, 255>>)}
      [] keyKind = "Integer"         -> {Key(-1, <<>>), Key(1, <<>>)}
      [] keyKind = "UnsignedInteger" -> {Key(1, <<>>), Key(UMax, <<>>)}
      [] keyKind = "Float"           -> {Key(-1, <<>>), Key(1, <<>>)}
      [] keyKind = "Double"          -> {Key(-1, <<>>), Key(1, <<>>)}

Record(i, u, st) == [integer |-> i, unsigned_integer |-> u, storable |-> st]

\* two records that differ and that deserialize_data accepts
\* (a strict schema accepts no unsigned value at or above 2^(Width-1)), and
\* one that serialize_data refuses
RecX == Record(-1, 1, TRUE)
RecY == Record(1, IF strict THEN 1 ELSE UMax, TRUE)
RecUnstorable == Record(0, 0, FALSE)
\* a record without a value for unsigned_integer: its serialized map has no
\* entry for the field
RecPartial == [integer |-> 0, storable |-> TRUE]
\* a record that carries a key of its own: its serialized map has an entry
\* for the key field
RecKeyed(k) == [key |-> k, integer |-> -1, unsigned_integer |-> 1,
                storable |-> TRUE]
\* a record whose unsigned_integer is serialized as the Integer variant
RecMistyped == [integer |-> 1, unsigned_integer |-> -1, variant |-> "Integer",
                storable |-> TRUE]

StorableData == {RecX, RecY}
Data == StorableData \cup {RecUnstorable}

OnlyLists == { <<>>, <<"integer">>, <<"unsigned_integer">>,
               <<"integer", "unsigned_integer">>,
               <<"unsigned_integer", "integer">> }

\* only lists that name the key field
KeyOnlyLists == { <<"key">>, <<"key", "integer">> }

Leaves(name, v) == {Equals(name, v), GreaterThan(name, v), LessThan(name, v)}

KeyLeaves == UNION { Leaves(key_field, serialize_key(k)) : k \in Keys }
IntegerLeaves == Leaves("integer", PersistenceData("Integer", 0, <<>>))
UnsignedLeaves ==
    Leaves("unsigned_integer", PersistenceData("UnsignedInteger", 1, <<>>))

KeyEquals == { Equals(key_field, serialize_key(k)) : k \in Keys }

\* the shape of the predicate of tests::test_generate_query
NestedQueries ==
    { And(Or(Not(Equals("integer", PersistenceData("Integer", 1, <<>>))),
             LessThan("unsigned_integer",
                      PersistenceData("UnsignedInteger", 1, <<>>))),
          c) : c \in KeyEquals }

Queries ==
    KeyLeaves \cup IntegerLeaves \cup UnsignedLeaves
    \cup { Not(a) : a \in UnsignedLeaves }
    \cup { And(GreaterThan("unsigned_integer",
                           PersistenceData("UnsignedInteger", 1, <<>>)), b) :
             b \in KeyEquals }
    \cup { Or(LessThan("integer", PersistenceData("Integer", 0, <<>>)), b) :
             b \in KeyEquals }
    \cup NestedQueries

PagedQueries == { GreaterThan("integer", PersistenceData("Integer", -1, <<>>)) }

Starts == 0..MaxStart
Limits == {None} \cup { Some(l) : l \in 0..MaxLimit }

\* ------------------------------------------------- reading rows back
\* a faulty dispatch: over the storage class of the value read
ReadColumnDynamic(kind, v) ==
    CASE v.cls = "TEXT"    -> PersistenceData("String", 0, v.s)
      [] v.cls = "BLOB"    -> PersistenceData("Bytes", 0, v.s)
      [] v.cls = "INTEGER" -> PersistenceData("Integer", v.n, <<>>)
      [] v.cls = "REAL"    -> PersistenceData("Double", v.n, <<>>)
      [] v.cls = "NULL"    -> PersistenceData(kind, 0, <<>>)

\* the read dispatch over the declared kind of the column; a NULL read as a
\* number is 0
ReadColumn(kind, v) ==
    CASE kind = "String" /\ v.cls = "TEXT" -> PersistenceData("String", 0, v.s)
      [] kind = "Bytes" /\ v.cls = "BLOB" -> PersistenceData("Bytes", 0, v.s)
      [] kind = "Integer" /\ v.cls = "INTEGER" ->
             PersistenceData("Integer", v.n, <<>>)
      [] kind = "UnsignedInteger" /\ v.cls = "INTEGER" ->
             PersistenceData("UnsignedInteger", CastU64(v.n), <<>>)
      [] kind = "Float" /\ v.cls = "REAL" ->
             PersistenceData("Float", CastF32(v.n), <<>>)
      [] kind = "Double" /\ v.cls = "REAL" ->
             PersistenceData("Double", v.n, <<>>)
      [] kind \in {"Integer", "UnsignedInteger", "Float", "Double"}
         /\ v.cls = "NULL" -> PersistenceData(kind, 0, <<>>)
      [] kind = "Bytes" /\ v.cls = "NULL" -> PersistenceData("Bytes", 0, <<>>)

ColumnNames == { columns[i].name : i \in 1..Len(columns) }

\* a column of the statement that the schema does not declare: collect_fields
\* panics with "Unknown table field"
UnknownTableField == \E c \in ColumnNames : c \notin FieldNames

\* a NULL in a column declared String: the driver cannot read it as text
\* and collect_fields panics with "Invalid column"
InvalidColumn(row) ==
    \E i \in 1..Len(fields) :
        /\ fields[i].kind = "String"
        /\ get_name(fields[i]) \in DOMAIN row
        /\ row[get_name(fields[i])].cls = "NULL"

collect_fields(row) ==
    [ c \in ColumnNames |-> ReadColumn(FieldKind(c), row[c]) ]

\* --------------------------------------------------- the table (driver)
TableExists == columns # <<>>

ColumnTypeOf(name) ==
    columns[CHOOSE i \in 1..Len(columns) : columns[i].name = name].type

\* the rows of rs whose key column equals the bound value
Matching(rs, v) ==
    { r \in rs : SqlEq(r[key_field], ApplyAffinity(ColumnTypeOf(key_field), v)) }

RECURSIVE OrderByDescending(_)
\* a faulty order: ORDER BY the key column, descending
OrderByDescending(rs) ==
    IF rs = {} THEN <<>>
    ELSE LET m == CHOOSE r \in rs :
                    \A o \in rs : ~SqlLess(r[key_field], o[key_field])
         IN <<m>> \o OrderByDescending(rs \ {m})

RECURSIVE OrderBy(_)
\* ORDER BY the key column, ascending
OrderBy(rs) ==
    IF rs = {} THEN <<>>
    ELSE LET m == CHOOSE r \in rs :
                    \A o \in rs : ~SqlLess(o[key_field], r[key_field])
         IN <<m>> \o OrderBy(rs \ {m})

\* LIMIT lim OFFSET off, a negative lim meaning no limit
LimitOffset(s, lim, off) ==
    LET upto == IF lim < 0 THEN Len(s) ELSE Min(Len(s), off + lim)
    IN  SubSeq(s, off + 1, upto)

\* the LIMIT argument scan and query format into the statement
LimitArg(limit) == IF limit = None THEN -1 ELSE limit[1]

RECURSIVE DecodeRows(_)
\* the row loop of scan and query: rows deserialize_data rejects are dropped
DecodeRows(s) ==
    IF s = <<>> THEN <<>>
    ELSE LET flds == collect_fields(Head(s))
             key == deserialize_key(flds[key_field])
             entry == deserialize_data(flds)
         IN (IF entry = None THEN <<>> ELSE << <<key[1], entry[1]>> >>)
            \o DecodeRows(Tail(s))

\* a row whose key deserialize_key rejects: the row loop panics with
\* "Invalid key found while deserializing"
InvalidKeyFound(s) ==
    \E i \in 1..Len(s) :
        deserialize_key(collect_fields(s[i])[key_field]) = None

\* ------------------------------------------------ outcomes of the reads
\* what each read does on the rows rs: its result, or a panic
Outcome(res, out) == [res |-> res, out |-> out]

\* a faulty load: the decoded record is unwrapped
LoadOutcomeUnwrap(rs, k) ==
    LET found == Matching(rs, BindValue(serialize_key(k)))
    IN  IF ~TableExists THEN Outcome("panic", <<>>)
        ELSE IF BindFails(BindValue(serialize_key(k)))
        THEN Outcome("absent", None)
        ELSE IF found = {} THEN Outcome("absent", None)
        ELSE IF UnknownTableField THEN Outcome("panic", <<>>)
        ELSE LET data == deserialize_data(collect_fields(CHOOSE r \in found : TRUE))
             IN  IF data = None THEN Outcome("panic", <<>>)
                 ELSE Outcome("some", data)

LoadOutcome(rs, k) ==
    LET found == Matching(rs, BindValue(serialize_key(k)))
    IN  IF ~TableExists THEN Outcome("panic", <<>>)
        ELSE IF BindFails(BindValue(serialize_key(k)))
        THEN Outcome("absent", None)
        ELSE IF found = {} THEN Outcome("absent", None)
        ELSE IF UnknownTableField THEN Outcome("panic", <<>>)
        ELSE LET data == deserialize_data(collect_fields(CHOOSE r \in found : TRUE))
             IN  Outcome(IF data = None THEN "absent" ELSE "some", data)

\* a faulty contains: the statement has no WHERE clause
ContainsOutcomeAny(rs, k) ==
    IF ~TableExists THEN Outcome("panic", <<>>)
    ELSE IF rs # {} THEN Outcome("true", <<>>) ELSE Outcome("false", <<>>)

ContainsOutcome(rs, k) ==
    IF ~TableExists THEN Outcome("panic", <<>>)
    ELSE IF Matching(rs, Bind(serialize_key(k))) # {}
    THEN Outcome("true", <<>>) ELSE Outcome("false", <<>>)

\* the row loop of scan and query on the rows the statement steps through
RowLoop(selected) ==
    IF selected # <<>> /\ UnknownTableField THEN Outcome("panic", <<>>)
    ELSE IF \E i \in 1..Len(selected) : InvalidColumn(selected[i])
    THEN Outcome("panic", <<>>)
    ELSE IF InvalidKeyFound(selected) THEN Outcome("panic", <<>>)
    ELSE Outcome("ok", DecodeRows(selected))

ScanOutcome(rs, start, limit) ==
    IF ~TableExists THEN Outcome("panic", <<>>)
    ELSE RowLoop(LimitOffset(OrderBy(rs), LimitArg(limit), start))

\* a faulty delete: the statement has no WHERE clause
DeletedRowsAll(rs, k) == {}

\* a faulty delete: the statement matches no row
DeletedRowsNone(rs, k) == rs

\* the rows DELETE FROM t WHERE "key"=? leaves
DeletedRows(rs, k) == rs \ Matching(rs, Bind(serialize_key(k)))

\* a faulty clear: the statement fails on every table and the failure is
\* ignored
ClearedRowsNone(rs) == rs

\* the rows DELETE FROM t leaves; without the table the statement fails and
\* the failure is ignored
ClearedRows(rs) == IF TableExists THEN {} ELSE rs

\* ------------------------------------------------------ the operations
NoKey == Key(0, <<>>)
NoData == RecUnstorable

NoQuery == Equals("", NoValue)

Call(op, k, d, only, start, limit, res, out) ==
    [op |-> op, key |-> k, data |-> d, only |-> only, query |-> NoQuery,
     start |-> start, limit |-> limit, res |-> res, out |-> out]

\* the process is gone: nothing else changes
Panic(call) ==
    /\ panicked' = TRUE
    /\ last' = [call EXCEPT !.res = "panic", !.out = <<>>]
    /\ before' = rows
    /\ UNCHANGED <<keyKind, strict, keyCheck, columns, rows, scanner, tables,
                   storing>>

\* an operation that returns res / out and leaves the table as it is
Return(call) ==
    /\ last' = call
    /\ before' = rows
    /\ UNCHANGED <<keyKind, strict, keyCheck, columns, rows, panicked,
                   scanner, tables, storing>>

\* an operation that returns res / out and leaves the rows rs
Write(call, rs) ==
    /\ last' = call
    /\ before' = rows
    /\ rows' = rs
    /\ tables' = IF scanner.pc = "open" THEN tables \cup {rs} ELSE tables
    /\ UNCHANGED <<keyKind, strict, keyCheck, columns, panicked, scanner,
                   storing>>

\* no scan is being stepped through
Idle == [pc |-> "idle", live |-> FALSE, loaded |-> FALSE, after |-> None,
         pending |-> <<>>, out |-> <<>>]

\* no store is in progress
NotStoring == [pc |-> "idle", key |-> NoKey, data |-> NoData, params |-> <<>>,
               bound |-> 0, fresh |-> FALSE, res |-> "ok"]

Init ==
    /\ keyKind \in Kinds
    /\ strict \in BOOLEAN
    /\ strict => keyKind = "String"
    /\ keyCheck = FALSE
    /\ columns = <<>>
    /\ rows = {}
    /\ before = {}
    /\ last = Call("new", NoKey, NoData, None, 0, None, "ok", <<>>)
    /\ panicked = FALSE
    /\ scanner = Idle
    /\ tables = {}
    /\ storing = NotStoring

\* a faulty initialize: the table is dropped and created again
initializeRecreate ==
    /\ ~panicked
    /\ columns' = [ i \in 1..Len(fields) |->
                      [name |-> get_name(fields[i]),
                       type |-> ColumnType(fields[i].kind)] ]
    /\ rows' = {}
    /\ last' = Call("initialize", NoKey, NoData, None, 0, None, "ok", <<>>)
    /\ before' = rows
    /\ UNCHANGED <<keyKind, strict, keyCheck, panicked, scanner, tables,
                   storing>>

\* CREATE TABLE IF NOT EXISTS "t" (<name TYPE>, ..., PRIMARY KEY (key))
initialize ==
    /\ ~panicked
    /\ columns' = IF TableExists THEN columns
                  ELSE [ i \in 1..Len(fields) |->
                           [name |-> get_name(fields[i]),
                            type |-> ColumnType(fields[i].kind)] ]
    /\ last' = Call("initialize", NoKey, NoData, None, 0, None, "ok", <<>>)
    /\ before' = rows
    /\ UNCHANGED <<keyKind, strict, keyCheck, rows, panicked, scanner, tables,
                   storing>>

\* a faulty load: the row that is returned is deleted
loadConsuming(k) ==
    /\ ~panicked
    /\ LET call == Call("load", k, NoData, None, 0, None, "absent", <<>>)
           o == LoadOutcome(rows, k)
       IN  IF o.res = "panic" THEN Panic(call)
           ELSE Write([call EXCEPT !.res = o.res, !.out = o.out],
                      IF o.res = "some" THEN DeletedRows(rows, k) ELSE rows)

\* SELECT * FROM "t" WHERE "key" = :primary_key
load(k) ==
    /\ ~panicked
    /\ LET call == Call("load", k, NoData, None, 0, None, "absent", <<>>)
           o == LoadOutcome(rows, k)
       IN  IF o.res = "panic" THEN Panic(call)
           ELSE Return([call EXCEPT !.res = o.res, !.out = o.out])

\* SELECT key FROM t WHERE key=?
contains(k) ==
    /\ ~panicked
    /\ LET call == Call("contains", k, NoData, None, 0, None, "false", <<>>)
           o == ContainsOutcome(rows, k)
       IN  IF o.res = "panic" THEN Panic(call)
           ELSE Return([call EXCEPT !.res = o.res])

\* a faulty delete: a statement that cannot be prepared is passed over
deleteTolerant(k) ==
    /\ ~panicked
    /\ LET call == Call("delete", k, NoData, None, 0, None, "ok", <<>>)
       IN  IF ~TableExists THEN Return([call EXCEPT !.res = "absent"])
           ELSE Write(call, DeletedRows(rows, k))

\* DELETE FROM t WHERE "key"=?
delete(k) ==
    /\ ~panicked
    /\ LET call == Call("delete", k, NoData, None, 0, None, "ok", <<>>)
       IN  IF ~TableExists THEN Panic(call)
           ELSE Write(call, DeletedRows(rows, k))

\* DELETE FROM t, its result ignored
clear ==
    /\ ~panicked
    /\ Write(Call("clear", NoKey, NoData, None, 0, None, "ok", <<>>),
             ClearedRows(rows))

\* SELECT * FROM "t" ORDER BY "key" LIMIT l OFFSET s
scan(start, limit) ==
    /\ ~panicked
    /\ LET call == Call("scan", NoKey, NoData, None, start, limit, "ok", <<>>)
           o == ScanOutcome(rows, start, limit)
       IN  IF o.res = "panic" THEN Panic(call)
           ELSE Return([call EXCEPT !.out = o.out])

\* ------------------------------------------------------------ store
FieldIndex(name) == CHOOSE i \in 1..Len(fields) : get_name(fields[i]) = name

\* a field that neither the serialized map nor the key supplies: the bind
\* loop panics with "Missing serialized field"
MissingSerializedField(serialized) ==
    \E i \in 1..Len(fields) :
        /\ get_name(fields[i]) \notin DOMAIN serialized
        /\ get_name(fields[i]) # key_field

\* a faulty binding: the values of the two data fields bound at each
\* other's position
StoreParamsSwapped(k, serialized) ==
    [ i \in 1..Len(fields) |->
        LET field_name == get_name(fields[i])
            other == IF field_name = "integer" THEN "unsigned_integer"
                     ELSE "integer"
        IN  Bind(IF field_name \in DOMAIN serialized
                 THEN serialized[other]
                 ELSE serialize_key(k)) ]

\* a faulty binding: the key argument is bound for the key field, whatever
\* the map holds
StoreParamsKeyArgument(k, serialized) ==
    [ i \in 1..Len(fields) |->
        LET field_name == get_name(fields[i])
        IN  Bind(IF field_name = key_field THEN serialize_key(k)
                 ELSE serialized[field_name]) ]

\* the value bound at each position of the INSERT, in fields order
StoreParams(k, serialized) ==
    [ i \in 1..Len(fields) |->
        LET field_name == get_name(fields[i])
        IN  Bind(IF field_name \in DOMAIN serialized
                 THEN serialized[field_name]
                 ELSE serialize_key(k)) ]

\* the row INSERT INTO t (<fields>) values (?, ...) writes
InsertedRow(params) ==
    [ c \in ColumnNames |-> ApplyAffinity(ColumnTypeOf(c), params[FieldIndex(c)]) ]

\* a table declared without PRIMARY KEY: no insert conflicts
KeyConflictNever(rs, row) == FALSE

\* a table declared with PRIMARY KEY over all its columns: only a row equal
\* in every column conflicts
KeyConflictAllColumns(rs, row) == row \in rs

\* PRIMARY KEY (key): a row with the same key is a constraint violation
KeyConflict(rs, row) == \E r \in rs : SqlEq(r[key_field], row[key_field])

store(k, d) ==
    /\ ~panicked
    /\ LET call == Call("store", k, d, None, 0, None, "ok", <<>>)
           serialized == serialize_data(d)
       IN  IF serialized = None THEN Return([call EXCEPT !.res = "StoreError"])
           ELSE IF ~TableExists THEN Panic(call)
           ELSE IF MissingSerializedField(serialized[1]) THEN Panic(call)
           ELSE LET row == InsertedRow(StoreParams(k, serialized[1]))
                IN  IF KeyConflict(rows, row)
                    THEN Return([call EXCEPT !.res = "StoreError"])
                    ELSE Write(call, rows \cup {row})

\* ------------------------------------------------------------ update
\* a faulty SET clause: every data column, whatever only lists
SetColumnsAll(only) ==
    LET NotKey(x) == x # key_field
        names == [ i \in 1..Len(fields) |-> get_name(fields[i]) ]
    IN  SelectSeq(names, NotKey)

\* the columns of the SET clause, in the order the statement names them
SetColumns(only) ==
    LET NotKey(x) == x # key_field
        names == [ i \in 1..Len(fields) |-> get_name(fields[i]) ]
    IN  IF only = None THEN SelectSeq(names, NotKey)
        ELSE SelectSeq(only[1], NotKey)

\* the fields whose values are bound by position, in the order they are bound
BoundFields(only) ==
    LET NotKey(v) == get_name(v) # key_field
        Listed(v) == InSeq(get_name(v), only[1])
    IN  IF only = None THEN SelectSeq(fields, NotKey)
        ELSE SelectSeq(fields, Listed)

\* the statement does not compile: an empty SET clause or an unknown column
InvalidUpdate(only) ==
    \/ SetColumns(only) = <<>>
    \/ \E i \in 1..Len(SetColumns(only)) : SetColumns(only)[i] \notin ColumnNames

\* a faulty binding: the positional values bound in the reverse order
UpdateParamsReversed(k, serialized, only) ==
    LET n == Len(SetColumns(only))
        bound == BoundFields(only)
    IN  [ i \in 1..(n + 1) |->
            IF i <= Len(bound)
            THEN Bind(serialized[get_name(bound[Len(bound) + 1 - i])])
            ELSE IF i = n + 1 THEN Bind(serialize_key(k))
            ELSE Null ]

\* the parameters of UPDATE t SET c1 = ?, ... WHERE key = :key; the named
\* parameter takes the index after the positional ones and is bound first
UpdateParams(k, serialized, only) ==
    LET n == Len(SetColumns(only))
        bound == BoundFields(only)
    IN  [ i \in 1..(n + 1) |->
            IF i <= Len(bound) THEN Bind(serialized[get_name(bound[i])])
            ELSE IF i = n + 1 THEN Bind(serialize_key(k))
            ELSE Null ]

\* the row after the SET clause is applied, the rightmost assignment of a
\* column winning
UpdatedRow(row, only, params) ==
    LET set == SetColumns(only)
    IN  [ c \in DOMAIN row |->
            IF InSeq(c, set)
            THEN LET j == CHOOSE j \in 1..Len(set) :
                            /\ set[j] = c
                            /\ \A h \in (j + 1)..Len(set) : set[h] # c
                 IN  ApplyAffinity(ColumnTypeOf(c), params[j])
            ELSE row[c] ]

\* a faulty update: the statement is prepared before the record is serialized
updatePrepareFirst(k, d, only) ==
    /\ ~panicked
    /\ LET call == Call("update", k, d, only, 0, None, "ok", <<>>)
           serialized == serialize_data(d)
       IN  IF ~TableExists \/ InvalidUpdate(only) THEN Panic(call)
           ELSE IF serialized = None
                THEN Return([call EXCEPT !.res = "StoreError"])
           ELSE IF \E i \in 1..Len(BoundFields(only)) :
                       get_name(BoundFields(only)[i]) \notin DOMAIN serialized[1]
                THEN Panic(call)
           ELSE LET params == UpdateParams(k, serialized[1], only)
                    hit == Matching(rows, params[Len(SetColumns(only)) + 1])
                IN  Write(call, (rows \ hit)
                                \cup { UpdatedRow(r, only, params) : r \in hit })

update(k, d, only) ==
    /\ ~panicked
    /\ LET call == Call("update", k, d, only, 0, None, "ok", <<>>)
           serialized == serialize_data(d)
       IN  IF serialized = None THEN Return([call EXCEPT !.res = "StoreError"])
           ELSE IF ~TableExists \/ InvalidUpdate(only) THEN Panic(call)
           ELSE IF \E i \in 1..Len(BoundFields(only)) :
                       get_name(BoundFields(only)[i]) \notin DOMAIN serialized[1]
                THEN Panic(call)
           ELSE LET params == UpdateParams(k, serialized[1], only)
                    hit == Matching(rows, params[Len(SetColumns(only)) + 1])
                IN  Write(call, (rows \ hit)
                                \cup { UpdatedRow(r, only, params) : r \in hit })

\* ------------------------------------------------------------- query
\* the statement text as its tokens; x is the name of a column token
Tok(t) == [t |-> t, x |-> ""]
ColumnTok(name) == [t |-> "col", x |-> name]

RECURSIVE generate_filter_or(_, _, _)
\* a faulty filter: the And arm joins its operands with OR
generate_filter_or(query, start_index, values) ==
    CASE query.op \in {"Or", "And"} ->
            LET ra == generate_filter_or(query.a[1], start_index, values)
                rb == generate_filter_or(query.b[1], ra.index, ra.values)
            IN  [statement |-> <<Tok("(")>> \o ra.statement \o <<Tok("OR")>>
                               \o rb.statement \o <<Tok(")")>>,
                 index |-> rb.index, values |-> rb.values]
      [] query.op = "Not" ->
            LET ra == generate_filter_or(query.a[1], start_index, values)
            IN  [statement |-> <<Tok("("), Tok("NOT")>> \o ra.statement
                               \o <<Tok(")")>>,
                 index |-> ra.index, values |-> ra.values]
      [] query.op = "Equals" ->
            [statement |-> <<ColumnTok(query.name), Tok("="), Tok("?")>>,
             index |-> start_index + 1, values |-> Append(values, query.val)]
      [] query.op = "GreaterThan" ->
            [statement |-> <<ColumnTok(query.name), Tok(">"), Tok("?")>>,
             index |-> start_index + 1, values |-> Append(values, query.val)]
      [] query.op = "LessThan" ->
            [statement |-> <<ColumnTok(query.name), Tok("<"), Tok("?")>>,
             index |-> start_index + 1, values |-> Append(values, query.val)]

RECURSIVE generate_filter_miscount(_, _, _)
\* a faulty filter: the Not arm counts itself as a placeholder
generate_filter_miscount(query, start_index, values) ==
    CASE query.op \in {"Or", "And"} ->
            LET ra == generate_filter_miscount(query.a[1], start_index, values)
                rb == generate_filter_miscount(query.b[1], ra.index, ra.values)
            IN  [statement |-> <<Tok("(")>> \o ra.statement
                               \o <<Tok(IF query.op = "Or" THEN "OR" ELSE "AND")>>
                               \o rb.statement \o <<Tok(")")>>,
                 index |-> rb.index, values |-> rb.values]
      [] query.op = "Not" ->
            LET ra == generate_filter_miscount(query.a[1], start_index, values)
            IN  [statement |-> <<Tok("("), Tok("NOT")>> \o ra.statement
                               \o <<Tok(")")>>,
                 index |-> ra.index + 1, values |-> ra.values]
      [] query.op = "Equals" ->
            [statement |-> <<ColumnTok(query.name), Tok("="), Tok("?")>>,
             index |-> start_index + 1, values |-> Append(values, query.val)]
      [] query.op = "GreaterThan" ->
            [statement |-> <<ColumnTok(query.name), Tok(">"), Tok("?")>>,
             index |-> start_index + 1, values |-> Append(values, query.val)]
      [] query.op = "LessThan" ->
            [statement |-> <<ColumnTok(query.name), Tok("<"), Tok("?")>>,
             index |-> start_index + 1, values |-> Append(values, query.val)]

RECURSIVE generate_filter_and_swapped(_, _, _)
\* a faulty filter: the And arm compiles its right operand before its left
generate_filter_and_swapped(query, start_index, values) ==
    CASE query.op = "And" ->
            LET rb == generate_filter_and_swapped(query.b[1], start_index, values)
                ra == generate_filter_and_swapped(query.a[1], rb.index, rb.values)
            IN  [statement |-> <<Tok("(")>> \o rb.statement \o <<Tok("AND")>>
                               \o ra.statement \o <<Tok(")")>>,
                 index |-> ra.index, values |-> ra.values]
      [] query.op = "Or" ->
            LET ra == generate_filter_and_swapped(query.a[1], start_index, values)
                rb == generate_filter_and_swapped(query.b[1], ra.index, ra.values)
            IN  [statement |-> <<Tok("(")>> \o ra.statement \o <<Tok("OR")>>
                               \o rb.statement \o <<Tok(")")>>,
                 index |-> rb.index, values |-> rb.values]
      [] query.op = "Not" ->
            LET ra == generate_filter_and_swapped(query.a[1], start_index, values)
            IN  [statement |-> <<Tok("("), Tok("NOT")>> \o ra.statement
                               \o <<Tok(")")>>,
                 index |-> ra.index, values |-> ra.values]
      [] query.op = "Equals" ->
            [statement |-> <<ColumnTok(query.name), Tok("="), Tok("?")>>,
             index |-> start_index + 1, values |-> Append(values, query.val)]
      [] query.op = "GreaterThan" ->
            [statement |-> <<ColumnTok(query.name), Tok(">"), Tok("?")>>,
             index |-> start_index + 1, values |-> Append(values, query.val)]
      [] query.op = "LessThan" ->
            [statement |-> <<ColumnTok(query.name), Tok("<"), Tok("?")>>,
             index |-> start_index + 1, values |-> Append(values, query.val)]

RECURSIVE generate_filter_or_swapped(_, _, _)
\* a faulty filter: the Or arm compiles its right operand before its left
generate_filter_or_swapped(query, start_index, values) ==
    CASE query.op = "Or" ->
            LET rb == generate_filter_or_swapped(query.b[1], start_index, values)
                ra == generate_filter_or_swapped(query.a[1], rb.index, rb.values)
            IN  [statement |-> <<Tok("(")>> \o rb.statement \o <<Tok("OR")>>
                               \o ra.statement \o <<Tok(")")>>,
                 index |-> ra.index, values |-> ra.values]
      [] query.op = "And" ->
            LET ra == generate_filter_or_swapped(query.a[1], start_index, values)
                rb == generate_filter_or_swapped(query.b[1], ra.index, ra.values)
            IN  [statement |-> <<Tok("(")>> \o ra.statement \o <<Tok("AND")>>
                               \o rb.statement \o <<Tok(")")>>,
                 index |-> rb.index, values |-> rb.values]
      [] query.op = "Not" ->
            LET ra == generate_filter_or_swapped(query.a[1], start_index, values)
            IN  [statement |-> <<Tok("("), Tok("NOT")>> \o ra.statement
                               \o <<Tok(")")>>,
                 index |-> ra.index, values |-> ra.values]
      [] query.op = "Equals" ->
            [statement |-> <<ColumnTok(query.name), Tok("="), Tok("?")>>,
             index |-> start_index + 1, values |-> Append(values, query.val)]
      [] query.op = "GreaterThan" ->
            [statement |-> <<ColumnTok(query.name), Tok(">"), Tok("?")>>,
             index |-> start_index + 1, values |-> Append(values, query.val)]
      [] query.op = "LessThan" ->
            [statement |-> <<ColumnTok(query.name), Tok("<"), Tok("?")>>,
             index |-> start_index + 1, values |-> Append(values, query.val)]

RECURSIVE generate_filter(_, _, _)
generate_filter(query, start_index, values) ==
    CASE query.op = "Or" ->
            LET ra == generate_filter(query.a[1], start_index, values)
                rb == generate_filter(query.b[1], ra.index, ra.values)
            IN  [statement |-> <<Tok("(")>> \o ra.statement \o <<Tok("OR")>>
                               \o rb.statement \o <<Tok(")")>>,
                 index |-> rb.index, values |-> rb.values]
      [] query.op = "And" ->
            LET ra == generate_filter(query.a[1], start_index, values)
                rb == generate_filter(query.b[1], ra.index, ra.values)
            IN  [statement |-> <<Tok("(")>> \o ra.statement \o <<Tok("AND")>>
                               \o rb.statement \o <<Tok(")")>>,
                 index |-> rb.index, values |-> rb.values]
      [] query.op = "Not" ->
            LET ra == generate_filter(query.a[1], start_index, values)
            IN  [statement |-> <<Tok("("), Tok("NOT")>> \o ra.statement
                               \o <<Tok(")")>>,
                 index |-> ra.index, values |-> ra.values]
      [] query.op = "Equals" ->
            [statement |-> <<ColumnTok(query.name), Tok("="), Tok("?")>>,
             index |-> start_index + 1, values |-> Append(values, query.val)]
      [] query.op = "GreaterThan" ->
            [statement |-> <<ColumnTok(query.name), Tok(">"), Tok("?")>>,
             index |-> start_index + 1, values |-> Append(values, query.val)]
      [] query.op = "LessThan" ->
            [statement |-> <<ColumnTok(query.name), Tok("<"), Tok("?")>>,
             index |-> start_index + 1, values |-> Append(values, query.val)]

RECURSIVE EvalWhere(_, _, _, _, _)
\* SQLite's evaluation of the WHERE clause on one row: the expression that
\* starts at token pos, the next '?' being parameter np; yields the truth
\* value, the position after the expression and the next parameter
EvalWhere(toks, pos, np, params, row) ==
    IF toks[pos].t = "col"
    THEN LET c == toks[pos].x
             cmp == toks[pos + 1].t
             p == ApplyAffinity(ColumnTypeOf(c), params[np])
         IN  [v |-> CASE cmp = "=" -> SqlEq(row[c], p)
                      [] cmp = ">" -> SqlLess(p, row[c])
                      [] cmp = "<" -> SqlLess(row[c], p),
              pos |-> pos + 3, np |-> np + 1]
    ELSE IF toks[pos + 1].t = "NOT"
    THEN LET r == EvalWhere(toks, pos + 2, np, params, row)
         IN  [v |-> ~r.v, pos |-> r.pos + 1, np |-> r.np]
    ELSE LET l == EvalWhere(toks, pos + 1, np, params, row)
             r == EvalWhere(toks, l.pos + 1, l.np, params, row)
         IN  [v |-> IF toks[l.pos].t = "OR" THEN l.v \/ r.v ELSE l.v /\ r.v,
              pos |-> r.pos + 1, np |-> r.np]

\* a column of the WHERE clause that the table does not have
UnknownColumn(toks) ==
    \E i \in 1..Len(toks) : toks[i].t = "col" /\ toks[i].x \notin ColumnNames

\* the parameters of the statement: the i-th collected value is bound at
\* position i
QueryParams(values) == [ i \in 1..Len(values) |-> BindValue(values[i]) ]

\* the rows SELECT * FROM "t" WHERE <filter> ORDER BY key LIMIT l OFFSET s
\* steps through
QueryRows(rs, q, start, limit) ==
    LET compiled == generate_filter(q, 0, <<>>)
        params == QueryParams(compiled.values)
        selected == { r \in rs :
                        EvalWhere(compiled.statement, 1, 1, params, r).v }
    IN  LimitOffset(OrderBy(selected), LimitArg(limit), start)

\* a bind of the loop over the collected values fails: query panics with
\* "Failed to bind data"
FailedToBind(q) ==
    LET values == generate_filter(q, 0, <<>>).values
    IN  \E i \in 1..Len(values) : BindFails(BindValue(values[i]))

QueryOutcome(rs, q, start, limit) ==
    IF ~TableExists \/ UnknownColumn(generate_filter(q, 0, <<>>).statement)
    THEN Outcome("panic", <<>>)
    ELSE IF FailedToBind(q) THEN Outcome("panic", <<>>)
    ELSE RowLoop(QueryRows(rs, q, start, limit))

query(q, start, limit) ==
    /\ ~panicked
    /\ LET call == [Call("query", NoKey, NoData, None, start, limit, "ok", <<>>)
                      EXCEPT !.query = q]
           o == QueryOutcome(rows, q, start, limit)
       IN  IF o.res = "panic" THEN Panic(call)
           ELSE Return([call EXCEPT !.out = o.out])

Next ==
    \/ initialize
    \/ \E k \in Keys : load(k)
    \/ \E k \in Keys, d \in Data : store(k, d)
    \/ \E k \in Keys : delete(k)
    \/ \E k \in Keys : contains(k)
    \/ clear
    \/ \E s \in Starts, l \in Limits : scan(s, l)
    \/ \E k \in Keys, d \in Data : update(k, d, None)
    \/ \E k \in Keys, d \in StorableData, o \in OnlyLists : update(k, d, Some(o))
    \/ \E q \in Queries : query(q, 0, None)
    \/ \E q \in PagedQueries, s \in Starts, l \in Limits : query(q, s, l)

Spec == Init /\ [][Next]_vars

\* ------------------------------------------------- two callers
\* Two callers share the connection. The connection's mutex makes every call
\* of the driver atomic, so an operation that steps its statement once is one
\* step; scan steps its statement once per row, and another caller's
\* operation can run between two steps. Whether a statement that is being
\* stepped sees a change made on its connection after its first step is
\* undefined in SQLite: live is that choice, a cursor on the key index that
\* reads the table as it is (TRUE) or rows sorted at the first step (FALSE).

\* prepare of scan(0, absent)
scanOpen ==
    /\ ~panicked
    /\ scanner.pc = "idle"
    /\ IF ~TableExists
       THEN Panic(Call("scan", NoKey, NoData, None, 0, None, "ok", <<>>))
       ELSE /\ \E live \in BOOLEAN :
                 scanner' = [Idle EXCEPT !.pc = "open", !.live = live]
            /\ tables' = {rows}
            /\ UNCHANGED <<keyKind, strict, keyCheck, columns, rows, before,
                           last, panicked, storing>>

\* one prepared_query.next() of the row loop, and the loop's body on its row
scanStep ==
    /\ ~panicked
    /\ scanner.pc = "open"
    /\ LET ahead == { r \in rows : \/ scanner.after = None
                                   \/ SqlLess(scanner.after[1], r[key_field]) }
           source == IF scanner.live THEN OrderBy(ahead)
                     ELSE IF scanner.loaded THEN scanner.pending
                     ELSE OrderBy(rows)
           call == Call("scan", NoKey, NoData, None, 0, None, "ok", scanner.out)
       IN  IF source = <<>>
           THEN /\ last' = call
                /\ before' = rows
                /\ scanner' = Idle
                /\ UNCHANGED <<keyKind, strict, keyCheck, columns, rows,
                               panicked, tables, storing>>
           ELSE IF \/ UnknownTableField
                   \/ InvalidColumn(Head(source))
                   \/ InvalidKeyFound(<<Head(source)>>)
           THEN Panic(call)
           ELSE /\ scanner' = [scanner EXCEPT
                                 !.loaded = TRUE,
                                 !.after = Some(Head(source)[key_field]),
                                 !.pending = IF scanner.live THEN <<>>
                                             ELSE Tail(source),
                                 !.out = @ \o DecodeRows(<<Head(source)>>)]
                /\ UNCHANGED <<keyKind, strict, keyCheck, columns, rows, before,
                               last, panicked, tables, storing>>

\* the other caller writes at most MaxConcurrentWrites times during one scan
WriteAllowed ==
    scanner.pc = "open" => Cardinality(tables) <= MaxConcurrentWrites

InitConcurrent ==
    /\ Init
    /\ ~strict

NextConcurrent ==
    \/ initialize
    \/ \E k \in Keys : WriteAllowed /\ store(k, RecX)
    \/ \E k \in Keys : WriteAllowed /\ delete(k)
    \/ scanOpen
    \/ scanStep

SpecConcurrent == InitConcurrent /\ [][NextConcurrent]_vars

\* ------------------------------------------- a store and another caller
\* store makes one driver call to prepare its statement, one bind call per
\* field and one call of next, which runs the INSERT; another caller's
\* operation can run between any two of them. The bound values are held by
\* the statement, not by the table.

\* serialize_data and prepare
storeOpen(k, d) ==
    /\ ~panicked
    /\ storing.pc = "idle"
    /\ LET call == Call("store", k, d, None, 0, None, "pending", <<>>)
           serialized == serialize_data(d)
       IN  IF serialized = None THEN Return([call EXCEPT !.res = "StoreError"])
           ELSE IF ~TableExists THEN Panic(call)
           ELSE /\ storing' = [NotStoring EXCEPT
                                 !.pc = "prepared", !.key = k, !.data = d,
                                 !.params = [ i \in 1..Len(fields) |-> Null ],
                                 !.fresh = Matching(rows, BindValue(serialize_key(k))) = {}]
                /\ last' = call
                /\ before' = rows
                /\ UNCHANGED <<keyKind, strict, keyCheck, columns, rows,
                               panicked, scanner, tables>>

\* a faulty bind: the value is written to the table's row at once
storeBindWrites ==
    /\ ~panicked
    /\ storing.pc = "prepared"
    /\ storing.bound < Len(fields)
    /\ LET i == storing.bound + 1
           serialized == serialize_data(storing.data)[1]
           params == [storing.params EXCEPT
                        ![i] = StoreParams(storing.key, serialized)[i]]
       IN  IF MissingSerializedField(serialized)
           THEN Panic(Call("store", storing.key, storing.data, None, 0, None,
                           "ok", <<>>))
           ELSE /\ storing' = [storing EXCEPT !.params = params, !.bound = i]
                /\ rows' = (rows \ {InsertedRow(storing.params)})
                           \cup {InsertedRow(params)}
                /\ UNCHANGED <<keyKind, strict, keyCheck, columns, before, last,
                               panicked, scanner, tables>>

\* one statement.bind of the loop over the fields
storeBind ==
    /\ ~panicked
    /\ storing.pc = "prepared"
    /\ storing.bound < Len(fields)
    /\ LET i == storing.bound + 1
           serialized == serialize_data(storing.data)[1]
           params == [storing.params EXCEPT
                        ![i] = StoreParams(storing.key, serialized)[i]]
       IN  IF MissingSerializedField(serialized)
           THEN Panic(Call("store", storing.key, storing.data, None, 0, None,
                           "ok", <<>>))
           ELSE /\ storing' = [storing EXCEPT !.params = params, !.bound = i]
                /\ UNCHANGED <<keyKind, strict, keyCheck, columns, rows, before,
                               last, panicked, scanner, tables>>

\* statement.next(): the INSERT runs
storeNext ==
    /\ ~panicked
    /\ storing.pc = "prepared"
    /\ storing.bound = Len(fields)
    /\ LET row == InsertedRow(storing.params)
           conflict == KeyConflict(rows, row)
       IN  /\ storing' = [storing EXCEPT
                            !.pc = "stepped",
                            !.res = IF conflict THEN "StoreError" ELSE "ok"]
           /\ rows' = IF conflict THEN rows ELSE rows \cup {row}
           /\ UNCHANGED <<keyKind, strict, keyCheck, columns, before, last,
                          panicked, scanner, tables>>

\* store returns the outcome of the step
storeReturn ==
    /\ ~panicked
    /\ storing.pc = "stepped"
    /\ last' = Call("store", storing.key, storing.data, None, 0, None,
                    storing.res, <<>>)
    /\ storing' = NotStoring
    /\ UNCHANGED <<keyKind, strict, keyCheck, columns, rows, before, panicked,
                   scanner, tables>>

NextStoring ==
    \/ initialize
    \/ \E k \in Keys, d \in StorableData : storeOpen(k, d)
    \/ storeBind
    \/ storeNext
    \/ storeReturn
    \/ \E k \in Keys : load(k)
    \/ \E k \in Keys : delete(k)

SpecStoring == Init /\ [][NextStoring]_vars

\* ------------------------------------------- every unsigned value
\* store and load with every value of the unsigned field, under the schema
\* whose key is unsigned too
UnsignedValues == 0..UMax

InitUnsigned ==
    /\ Init
    /\ keyKind = "UnsignedInteger"

NextUnsigned ==
    \/ initialize
    \/ \E k \in Keys, u \in UnsignedValues : store(k, Record(0, u, TRUE))
    \/ \E k \in Keys : load(k)
    \/ \E k \in Keys : delete(k)

SpecUnsigned == InitUnsigned /\ [][NextUnsigned]_vars

\* ------------------------------------------- a bind that fails
\* the operations called with a key longer than the connection accepts, under
\* the schema whose key is a String. A store whose key bind fails inserts a
\* row with a NULL key; such rows match no key, and every scan that reaches
\* one panics, so how many of them the table holds is never observed.
BigKey == Key(0, [ i \in 1..(LengthLimit + 1) |-> 116 ])

InitBind ==
    /\ Init
    /\ keyKind = "String"
    /\ ~strict

NextBind ==
    \/ initialize
    \/ \E k \in Keys \cup {BigKey} : store(k, RecX)
    \/ \E k \in Keys \cup {BigKey} : load(k)
    \/ \E k \in Keys \cup {BigKey} : delete(k)
    \/ \E k \in Keys \cup {BigKey} : contains(k)
    \/ \E k \in Keys \cup {BigKey} : update(k, RecY, None)
    \/ \E k \in Keys \cup {BigKey} :
           query(Equals(key_field, serialize_key(k)), 0, None)
    \/ scan(0, None)
    \/ clear

SpecBind == InitBind /\ [][NextBind]_vars

\* ------------------------------------------- any schema, any argument
\* the adapter under every schema and argument the traits allow: a
\* deserialize_key that rejects some stored key, a serialized map without
\* some field, an only list that names the key
InitAny ==
    /\ keyKind \in Kinds
    /\ strict \in BOOLEAN
    /\ keyCheck \in BOOLEAN
    /\ (strict \/ keyCheck) => keyKind = "String"
    /\ ~(strict /\ keyCheck)
    /\ columns = <<>>
    /\ rows = {}
    /\ before = {}
    /\ last = Call("new", NoKey, NoData, None, 0, None, "ok", <<>>)
    /\ panicked = FALSE
    /\ scanner = Idle
    /\ tables = {}
    /\ storing = NotStoring

NextAny ==
    \/ Next
    \/ \E k \in Keys : store(k, RecPartial)
    \/ \E k \in Keys : update(k, RecPartial, None)
    \/ \E k \in Keys, d \in StorableData, o \in KeyOnlyLists :
           update(k, d, Some(o))
    \/ \E k \in Keys, k2 \in Keys : store(k, RecKeyed(k2))
    \/ \E k \in Keys : store(k, RecMistyped)

SpecAny == InitAny /\ [][NextAny]_vars

\* ------------------------------------------------- the claimed behaviour
\* the order of two values of one declared kind: byte-wise for text and
\* bytes, numeric for the rest; wrapped takes unsigned integers as the signed
\* integers they are stored as
KindLess(a, b, wrapped) ==
    CASE a.kind \in {"String", "Bytes"} -> SeqLess(a.s, b.s)
      [] a.kind = "UnsignedInteger" /\ wrapped -> CastI64(a.n) < CastI64(b.n)
      [] OTHER -> a.n < b.n

\* the value an entry <<key, record>> holds for a field of the schema
FieldOf(name, e) ==
    IF name = key_field THEN serialize_key(e[1])
    ELSE serialize_data(e[2])[1][name]

RECURSIVE Eval(_, _, _)
\* the Boolean reading of a query on one entry
Eval(q, e, wrapped) ==
    CASE q.op = "Or" -> Eval(q.a[1], e, wrapped) \/ Eval(q.b[1], e, wrapped)
      [] q.op = "And" -> Eval(q.a[1], e, wrapped) /\ Eval(q.b[1], e, wrapped)
      [] q.op = "Not" -> ~Eval(q.a[1], e, wrapped)
      [] q.op = "Equals" -> FieldOf(q.name, e) = q.val
      [] q.op = "GreaterThan" -> KindLess(q.val, FieldOf(q.name, e), wrapped)
      [] q.op = "LessThan" -> KindLess(FieldOf(q.name, e), q.val, wrapped)

\* the entries of s that satisfy q, in the order of s
Filter(s, q, wrapped) ==
    LET Holds(e) == Eval(q, e, wrapped)
    IN  SelectSeq(s, Holds)

\* the elements start+1 .. start+limit of s, to the end without a limit
Slice(s, start, limit) ==
    SubSeq(s, start + 1,
           IF limit = None THEN Len(s) ELSE Min(Len(s), start + limit[1]))

\* s ascends strictly by key
Ascending(s, wrapped) ==
    \A i \in 1..(Len(s) - 1) :
        KindLess(serialize_key(s[i][1]), serialize_key(s[i + 1][1]), wrapped)

Present(rs, k) == ContainsOutcome(rs, k).res = "true"

\* C1: after store(k, d) returned ok on a table without key k, load(k)
\* returns d itself and contains(k) is true
RoundTrip ==
    (last.op = "store" /\ last.res = "ok" /\ ~Present(before, last.key))
    => /\ LoadOutcome(rows, last.key) = Outcome("some", Some(last.data))
       /\ ContainsOutcome(rows, last.key).res = "true"

RoundTripWitness ==
    /\ last.op = "store" /\ last.res = "ok" /\ ~Present(before, last.key)
    /\ last.data.integer # last.data.unsigned_integer
    /\ LoadOutcome(rows, last.key).res = "some"

\* C2 as stated: query(q, 0, absent) is the list scan(0, absent) returns,
\* filtered by the Boolean reading of q with every comparison taken on the
\* declared kind, unsigned integers over their whole range
QueryAsStated ==
    (last.op = "query" /\ last.res = "ok" /\ last.start = 0
        /\ last.limit = None)
    => /\ ScanOutcome(rows, 0, None).res = "ok"
       /\ last.out = Filter(ScanOutcome(rows, 0, None).out, last.query, FALSE)

\* C2: query(q, 0, absent) is the list scan(0, absent) returns, filtered by
\* the Boolean reading of q, where GreaterThan and LessThan on an unsigned
\* field compare the values as the signed integers they wrap to
QueryCorrect ==
    (last.op = "query" /\ last.res = "ok" /\ last.start = 0
        /\ last.limit = None)
    => /\ ScanOutcome(rows, 0, None).res = "ok"
       /\ last.out = Filter(ScanOutcome(rows, 0, None).out, last.query, TRUE)

QueryCorrectWitness ==
    /\ last.op = "query" /\ last.res = "ok" /\ last.query.op = "And"
    /\ Len(ScanOutcome(rows, 0, None).out) = 2
    /\ Len(last.out) = 1

\* C3 as stated: scan(start, limit) and query(q, start, limit) return the
\* elements start+1 .. start+limit of the list the unpaginated call returns
PaginationAsStated ==
    /\ (last.op = "scan" /\ last.res = "ok")
       => last.out = Slice(ScanOutcome(rows, 0, None).out,
                           last.start, last.limit)
    /\ (last.op = "query" /\ last.res = "ok")
       => last.out = Slice(QueryOutcome(rows, last.query, 0, None).out,
                           last.start, last.limit)

\* C4 as stated: scan(0, absent) ascends strictly by key in the declared
\* order of the key kind, unsigned keys over their whole range
ScanOrderAsStated ==
    (last.op = "scan" /\ last.res = "ok" /\ last.start = 0
        /\ last.limit = None)
    => Ascending(last.out, FALSE)

\* C4: scan(0, absent) ascends strictly by key, unsigned keys in the order
\* of the signed integers they wrap to
ScanOrder ==
    (last.op = "scan" /\ last.res = "ok" /\ last.start = 0
        /\ last.limit = None)
    => Ascending(last.out, TRUE)

ScanOrderWitness ==
    /\ last.op = "scan" /\ last.res = "ok" /\ last.start = 0
    /\ last.limit = None
    /\ keyKind = "UnsignedInteger"
    /\ Len(last.out) = 2
    /\ last.out[1][1].n = UMax

\* C5: after update(k, r', only = [f]) returned ok on a row that load read
\* as r, load(k) returns r with field f taken from r'
PartialUpdateLocal ==
    (last.op = "update" /\ last.res = "ok" /\ last.only # None
        /\ Len(last.only[1]) = 1 /\ last.only[1][1] # key_field
        /\ LoadOutcome(before, last.key).res = "some")
    => LET f == last.only[1][1]
           r == LoadOutcome(before, last.key).out[1]
       IN  LoadOutcome(rows, last.key) =
               Outcome("some", Some([r EXCEPT ![f] = last.data[f]]))

PartialUpdateLocalWitness ==
    /\ last.op = "update" /\ last.res = "ok"
    /\ last.only = Some(<<"integer">>)
    /\ LoadOutcome(before, last.key).res = "some"
    /\ LoadOutcome(before, last.key).out[1].integer # last.data.integer
    /\ LoadOutcome(before, last.key).out[1].unsigned_integer
           # last.data.unsigned_integer

\* C6 as stated: in update with only, the SET columns and the bound values
\* are both in fields order, so each listed column receives the new record's
\* value of that field and no other column changes
UpdateOnlyAsStated ==
    (last.op = "update" /\ last.res = "ok" /\ last.only # None
        /\ Present(before, last.key))
    => LET serialized == serialize_data(last.data)[1]
           bound == BoundFields(last.only)
           kv == BindValue(serialize_key(last.key))
       IN  /\ SetColumns(last.only)
                 = [ i \in 1..Len(bound) |-> get_name(bound[i]) ]
           /\ \A b \in Matching(before, kv) :
                \E a \in Matching(rows, kv) :
                    \A c \in ColumnNames :
                        a[c] = IF InSeq(c, last.only[1])
                               THEN ApplyAffinity(ColumnTypeOf(c),
                                                  BindValue(serialized[c]))
                               ELSE b[c]

\* C7: after update(k, r', only absent) returned ok on an existing row,
\* load(k) returns r' and the keys of the table are the same
FullUpdate ==
    (last.op = "update" /\ last.res = "ok" /\ last.only = None
        /\ Present(before, last.key))
    => /\ LoadOutcome(rows, last.key) = Outcome("some", Some(last.data))
       /\ { r[key_field] : r \in rows } = { r[key_field] : r \in before }

FullUpdateWitness ==
    /\ last.op = "update" /\ last.res = "ok" /\ last.only = None
    /\ LoadOutcome(before, last.key).res = "some"
    /\ LoadOutcome(before, last.key).out[1].integer # last.data.integer
    /\ LoadOutcome(before, last.key).out[1].unsigned_integer
           # last.data.unsigned_integer

\* C8: store(k, _) on a table that holds a row with key k returns StoreError
\* and leaves the rows as they were
StoreIsInsert ==
    (last.op = "store" /\ Present(before, last.key))
    => /\ last.res = "StoreError"
       /\ rows = before

StoreIsInsertWitness ==
    /\ last.op = "store" /\ Present(before, last.key)
    /\ last.data.storable
    /\ LoadOutcome(before, last.key).res = "some"
    /\ LoadOutcome(before, last.key).out # Some(last.data)

\* C9: after delete(k) the key is not contained and load(k) is absent, and
\* only a store(k, _) that returns ok makes an absent key present
DeleteRemoves ==
    /\ (last.op = "delete" /\ last.res = "ok")
       => /\ ContainsOutcome(rows, last.key).res = "false"
          /\ LoadOutcome(rows, last.key) = Outcome("absent", None)
    /\ \A k \in Keys :
         (TableExists /\ ~Present(before, k) /\ Present(rows, k))
         => (last.op = "store" /\ last.key = k /\ last.res = "ok")

DeleteRemovesWitness ==
    /\ last.op = "delete" /\ last.res = "ok"
    /\ Present(before, last.key)
    /\ Cardinality(before) = 2
    /\ Cardinality(rows) = 1

\* C10: on a table that exists, clear returns and afterwards scan(0, absent)
\* is empty and no key is contained
ClearEmpties ==
    (last.op = "clear" /\ TableExists)
    => /\ last.res = "ok"
       /\ ScanOutcome(rows, 0, None) = Outcome("ok", <<>>)
       /\ \A k \in Keys : ContainsOutcome(rows, k).res = "false"

ClearEmptiesWitness ==
    /\ last.op = "clear" /\ last.res = "ok" /\ TableExists
    /\ Cardinality(before) = 2

\* the rows whose key column, read as the declared kind, is serialize_key(k)
RowsOf(rs, k) ==
    { r \in rs : ReadColumn(keyKind, r[key_field]) = serialize_key(k) }

\* C11: initialize on a table that exists returns ok and leaves the table's
\* columns and rows as they were
InitializeIdempotent ==
    [][ (last'.op = "initialize" /\ TableExists)
        => (last'.res = "ok" /\ columns' = columns /\ rows' = rows) ]_vars

InitializeIdempotentWitness ==
    /\ last.op = "initialize" /\ last.res = "ok"
    /\ Cardinality(rows) = 2
    /\ rows = before

\* C12: contains(k) is true exactly when the table holds a row whose key
\* column is serialize_key(k)
ContainsIff ==
    (last.op = "contains" /\ last.res # "panic")
    => (last.res = "true" <=> RowsOf(rows, last.key) # {})

ContainsIffWitness ==
    /\ last.op = "contains" /\ last.res = "true"
    /\ Cardinality(rows) = 2

\* C13: on a table that exists load(k) does not abort; it returns the decoded
\* record when a row for k exists and deserialize_data accepts it, and absent
\* when no row matches k or deserialize_data rejects the row
LoadDecodes ==
    (last.op = "load" /\ TableExists)
    => /\ last.res # "panic"
       /\ RowsOf(rows, last.key) = {}
          => (last.res = "absent" /\ last.out = None)
       /\ \A r \in RowsOf(rows, last.key) :
            LET data == deserialize_data(collect_fields(r))
            IN  IF data = None THEN last.res = "absent" /\ last.out = None
                ELSE last.res = "some" /\ last.out = data

LoadDecodesWitness ==
    /\ last.op = "load" /\ last.res = "absent"
    /\ RowsOf(rows, last.key) # {}

\* C15 as stated: on a table without a row for k, update(k, d, only) with a
\* record that serializes returns ok and delete(k) returns ok, and the rows
\* are unchanged
MissingKeyNoOp ==
    /\ (last.op = "update" /\ TableExists /\ serialize_data(last.data) # None
           /\ ~Present(before, last.key))
       => (last.res = "ok" /\ rows = before)
    /\ (last.op = "delete" /\ TableExists /\ ~Present(before, last.key))
       => (last.res = "ok" /\ rows = before)

\* C16: store and update of a record serialize_data rejects return StoreError
\* without preparing a statement, also when the table does not exist, and
\* leave the rows unchanged
SerializeFailure ==
    (last.op \in {"store", "update"} /\ serialize_data(last.data) = None)
    => (last.res = "StoreError" /\ rows = before)

SerializeFailureWitness ==
    /\ last.op = "update" /\ serialize_data(last.data) = None
    /\ last.res = "StoreError"
    /\ ~TableExists

RECURSIVE CountLeaves(_)
\* the number of Equals / GreaterThan / LessThan leaves of a query
CountLeaves(q) ==
    CASE q.op \in {"Or", "And"} -> CountLeaves(q.a[1]) + CountLeaves(q.b[1])
      [] q.op = "Not" -> CountLeaves(q.a[1])
      [] OTHER -> 1

\* the number of '?' in a statement
CountPlaceholders(toks) ==
    Cardinality({ i \in 1..Len(toks) : toks[i].t = "?" })

\* C19: for the query of every call, compiled from any start index, the
\* number of '?' in the fragment, the number of values collected for binding
\* and the increase of the index all equal the number of leaves
PlaceholderStability ==
    last.op = "query"
    => \A start_index \in Starts :
         LET compiled == generate_filter(last.query, start_index, <<>>)
         IN  /\ CountPlaceholders(compiled.statement) = CountLeaves(last.query)
             /\ Len(compiled.values) = CountLeaves(last.query)
             /\ compiled.index - start_index = CountLeaves(last.query)

PlaceholderStabilityWitness ==
    /\ last.op = "query" /\ last.res = "ok"
    /\ CountLeaves(last.query) = 3
    /\ rows # {}

RECURSIVE DropFailures(_)
\* the entries of the rows of s that both deserialize_key and
\* deserialize_data accept, in the order of s
DropFailures(s) ==
    IF s = <<>> THEN <<>>
    ELSE LET flds == collect_fields(Head(s))
             key == deserialize_key(flds[key_field])
             entry == deserialize_data(flds)
         IN (IF key = None \/ entry = None THEN <<>>
             ELSE << <<key[1], entry[1]>> >>)
            \o DropFailures(Tail(s))

\* C14 as stated: scan and query return, and their result is the rows in
\* range without those whose key or record fails to decode, in order
DecodeFailuresDropped ==
    (last.op \in {"scan", "query"} /\ TableExists)
    => LET selected ==
               IF last.op = "scan"
               THEN LimitOffset(OrderBy(rows), LimitArg(last.limit), last.start)
               ELSE QueryRows(rows, last.query, last.start, last.limit)
       IN  /\ last.res = "ok"
           /\ last.out = DropFailures(selected)

\* C17 as stated: store of a record whose serialized map lacks a non-key
\* field returns StoreError and inserts no row
MissingFieldIsError ==
    (last.op = "store" /\ TableExists /\ serialize_data(last.data) # None
        /\ MissingSerializedField(serialize_data(last.data)[1]))
    => (last.res = "StoreError" /\ rows = before)

\* C18 as stated: for every only list, also one that names the key field,
\* the key is neither in the SET clause nor among the fields bound by
\* position, the update returns, the keys of the rows stay, and every listed
\* data column receives the value of its own field
KeyNeverWritten ==
    (last.op = "update" /\ TableExists /\ last.only # None
        /\ serialize_data(last.data) # None
        /\ ~MissingSerializedField(serialize_data(last.data)[1]))
    => LET serialized == serialize_data(last.data)[1]
           bound == BoundFields(last.only)
           kv == BindValue(serialize_key(last.key))
       IN  /\ ~InSeq(key_field, SetColumns(last.only))
           /\ \A i \in 1..Len(bound) : get_name(bound[i]) # key_field
           /\ InSeq(key_field, last.only[1]) => last.res = "ok"
           /\ { r[key_field] : r \in rows } = { r[key_field] : r \in before }
           /\ \A b \in Matching(before, kv) :
                \E a \in Matching(rows, kv) :
                    \A c \in ColumnNames \ {key_field} :
                        InSeq(c, last.only[1])
                        => a[c] = ApplyAffinity(ColumnTypeOf(c),
                                                BindValue(serialized[c]))

\* C20 as stated: the list a scan returns while another caller writes is the
\* list a scan returns on the rows the table held at some moment between the
\* scan's call and its return
ScanLinearizable ==
    (last.op = "scan" /\ last.res = "ok" /\ scanner.pc = "idle"
        /\ tables # {})
    => \E t \in tables : last.out = ScanOutcome(t, 0, None).out

\* C21: a load(k) that runs while another caller is inside store(k, r), on a
\* table that had no row for k when the store began, returns absent or r
StoreVisibleAtomically ==
    (last.op = "load" /\ storing.pc # "idle" /\ storing.fresh
        /\ last.key = storing.key)
    => \/ last.res = "absent" /\ last.out = None
       \/ last.res = "some" /\ last.out = Some(storing.data)

StoreVisibleAtomicallyWitness ==
    /\ last.op = "load" /\ storing.pc = "stepped" /\ storing.fresh
    /\ last.key = storing.key
    /\ last.res = "some"
    /\ Cardinality(rows) = 2

RECURSIVE LeafValues(_)
\* the constants of the leaves of a query, left to right
LeafValues(q) ==
    CASE q.op \in {"Or", "And"} -> LeafValues(q.a[1]) \o LeafValues(q.b[1])
      [] q.op = "Not" -> LeafValues(q.a[1])
      [] OTHER -> <<q.val>>

RECURSIVE LeafNames(_)
\* the fields of the leaves of a query, left to right
LeafNames(q) ==
    CASE q.op \in {"Or", "And"} -> LeafNames(q.a[1]) \o LeafNames(q.b[1])
      [] q.op = "Not" -> LeafNames(q.a[1])
      [] OTHER -> <<q.name>>

\* the columns compared with the '?' of a statement, in the order of the '?'
PlaceholderColumns(toks) ==
    LET IsColumn(t) == t.t = "col"
        cols == SelectSeq(toks, IsColumn)
    IN  [ i \in 1..Len(cols) |-> cols[i].x ]

\* the lists of values a compilation starts from
Accs == { <<>>, <<NoValue>> }

\* C22: for the query of every call, compiled from any index and any list
\* of values, the values returned are that list followed by the constants of
\* the leaves from left to right, the i-th '?' is compared with the field of
\* the i-th leaf, and query binds the i-th leaf's constant at position i
PlaceholderOrder ==
    last.op = "query"
    => \A start_index \in Starts, acc \in Accs :
         LET compiled == generate_filter(last.query, start_index, acc)
             params == QueryParams(generate_filter(last.query, 0, <<>>).values)
         IN  /\ compiled.values = acc \o LeafValues(last.query)
             /\ PlaceholderColumns(compiled.statement) = LeafNames(last.query)
             /\ Len(params) = CountLeaves(last.query)
             /\ \A i \in 1..Len(params) :
                    params[i] = BindValue(LeafValues(last.query)[i])

PlaceholderOrderWitness ==
    /\ last.op = "query" /\ last.res = "ok"
    /\ last.query.op = "And" /\ CountLeaves(last.query) = 3
    /\ Cardinality(rows) = 2
    /\ Len(last.out) = 1

RECURSIVE CountNodes(_)
\* the number of Or, And and Not nodes of a query
CountNodes(q) ==
    CASE q.op \in {"Or", "And"} -> 1 + CountNodes(q.a[1]) + CountNodes(q.b[1])
      [] q.op = "Not" -> 1 + CountNodes(q.a[1])
      [] OTHER -> 0

\* the number of tokens t in a statement
CountTok(toks, t) == Cardinality({ i \in 1..Len(toks) : toks[i].t = t })

RECURSIVE Shape(_)
\* a query without its constants
Shape(q) ==
    CASE q.op = "Or" -> Or(Shape(q.a[1]), Shape(q.b[1]))
      [] q.op = "And" -> And(Shape(q.a[1]), Shape(q.b[1]))
      [] q.op = "Not" -> Not(Shape(q.a[1]))
      [] OTHER -> [q EXCEPT !.val = NoValue]

RECURSIVE ReadGroup(_, _)
\* the predicate read from the tokens of a statement from position pos on:
\* a comparison, or one group "( NOT A )", "( A OR B )" or "( A AND B )";
\* ok tells that every group read is closed by its parenthesis
ReadGroup(toks, pos) ==
    IF toks[pos].t = "col"
    THEN LET cmp == toks[pos + 1].t
         IN  [q |-> CASE cmp = "=" -> Equals(toks[pos].x, NoValue)
                      [] cmp = ">" -> GreaterThan(toks[pos].x, NoValue)
                      [] cmp = "<" -> LessThan(toks[pos].x, NoValue),
              ok |-> toks[pos + 2].t = "?", pos |-> pos + 3]
    ELSE IF toks[pos + 1].t = "NOT"
    THEN LET r == ReadGroup(toks, pos + 2)
         IN  [q |-> Not(r.q),
              ok |-> r.ok /\ toks[pos].t = "(" /\ toks[r.pos].t = ")",
              pos |-> r.pos + 1]
    ELSE LET l == ReadGroup(toks, pos + 1)
             r == ReadGroup(toks, l.pos + 1)
         IN  [q |-> IF toks[l.pos].t = "OR" THEN Or(l.q, r.q) ELSE And(l.q, r.q),
              ok |-> /\ l.ok /\ r.ok /\ toks[pos].t = "("
                     /\ toks[l.pos].t \in {"OR", "AND"} /\ toks[r.pos].t = ")",
              pos |-> r.pos + 1]

\* C23: the fragment compiled for the query of every call reads back, group
\* by group, as the query's own tree of Or, And and Not nodes with the left
\* operand before the right, and has as many opening and as many closing
\* parentheses as the query has such nodes
TreeShapeKept ==
    last.op = "query"
    => LET toks == generate_filter(last.query, 0, <<>>).statement
           read == ReadGroup(toks, 1)
       IN  /\ read.ok
           /\ read.pos = Len(toks) + 1
           /\ read.q = Shape(last.query)
           /\ CountTok(toks, "(") = CountNodes(last.query)
           /\ CountTok(toks, ")") = CountNodes(last.query)

TreeShapeKeptWitness ==
    /\ last.op = "query" /\ last.res = "ok"
    /\ CountNodes(last.query) = 3
    /\ last.query.a[1].op = "Or"
    /\ Cardinality(rows) = 1
    /\ last.out = <<>>

\* C24: a store that returns ok has added exactly one row to the table, and
\* each column of the row holds the value bound for its own field: the
\* serialized map's entry when the map has one, also for the key field, and
\* serialize_key(k) for the key field when the map has none
StoreBindsInFieldsOrder ==
    (last.op = "store" /\ last.res = "ok")
    => LET serialized == serialize_data(last.data)[1]
           Value(c) == IF c \in DOMAIN serialized THEN serialized[c]
                       ELSE serialize_key(last.key)
           row == [ c \in ColumnNames |->
                      ApplyAffinity(ColumnTypeOf(c), BindValue(Value(c))) ]
       IN  /\ \A c \in ColumnNames \ DOMAIN serialized : c = key_field
           /\ row \notin before
           /\ rows = before \cup {row}
           /\ [ i \in 1..Len(columns) |-> columns[i].name ]
                 = [ i \in 1..Len(fields) |-> get_name(fields[i]) ]

StoreBindsInFieldsOrderWitness ==
    /\ last.op = "store" /\ last.res = "ok"
    /\ key_field \in DOMAIN last.data
    /\ last.data[key_field] # last.key
    /\ Present(rows, last.data[key_field])
    /\ ~Present(rows, last.key)
    /\ Cardinality(rows) = 1

\* C25: after store returned ok with an unsigned field value u below
\* 2^(Width-1), the column holds the integer u itself and load returns u; and
\* every load of a row whose column holds a non-negative integer returns
\* that integer
UnsignedRoundTrip ==
    /\ (last.op = "store" /\ last.res = "ok"
           /\ last.data.unsigned_integer < Half)
       => /\ RowsOf(rows, last.key) # {}
          /\ \A r \in RowsOf(rows, last.key) :
                r["unsigned_integer"]
                    = Stored("INTEGER", last.data.unsigned_integer, <<>>)
          /\ LoadOutcome(rows, last.key).res = "some"
          /\ LoadOutcome(rows, last.key).out[1].unsigned_integer
                = last.data.unsigned_integer
    /\ (last.op = "load" /\ last.res = "some")
       => \A r \in RowsOf(rows, last.key) :
            r["unsigned_integer"].n >= 0
            => last.out[1].unsigned_integer = r["unsigned_integer"].n

UnsignedRoundTripWitness ==
    /\ last.op = "load" /\ last.res = "some"
    /\ last.out[1].unsigned_integer = Half - 1
    /\ last.key.n = UMax

\* C26: for every row of the table, the map collect_fields builds from it has
\* one entry per column of the statement, under the column's name, and each
\* entry is of the variant declared for that field, whatever variant was
\* bound when the row was written
ReadsDispatchOnDeclaredKind ==
    TableExists
    => \A r \in rows :
         LET m == collect_fields(r)
         IN  /\ DOMAIN m = ColumnNames
             /\ ColumnNames = FieldNames
             /\ \A c \in ColumnNames : m[c].kind = FieldKind(c)

ReadsDispatchOnDeclaredKindWitness ==
    /\ last.op = "store" /\ last.res = "ok"
    /\ "variant" \in DOMAIN last.data
    /\ serialize_data(last.data)[1]["unsigned_integer"].kind = "Integer"
    /\ \E r \in RowsOf(rows, last.key) :
          /\ r["unsigned_integer"].n < 0
          /\ collect_fields(r)["unsigned_integer"]
                = PersistenceData("UnsignedInteger", UMax, <<>>)

\* the key bound by the last call is longer than the connection accepts
KeyBindFailed ==
    IF last.op = "query" THEN FailedToBind(last.query)
    ELSE BindFails(BindValue(serialize_key(last.key)))

\* C27 as stated: an operation whose bind of the key fails does not abort,
\* and its result is that of stepping the statement with the parameter left
\* NULL: no row matches, and store inserts a row with a NULL key
BindFailuresSwallowed ==
    (last.op \in {"load", "store", "update", "delete", "contains", "query"}
        /\ TableExists /\ KeyBindFailed)
    => /\ last.res # "panic"
       /\ last.op = "load" => last.res = "absent"
       /\ last.op = "contains" => last.res = "false"
       /\ last.op = "query" => last.out = <<>>
       /\ last.op \in {"update", "delete"} => (last.res = "ok" /\ rows = before)
       /\ last.op = "store"
          => (last.res = "ok" /\ \E r \in rows : r[key_field] = Null)

\* C28: without the table, where no statement can be prepared, load, delete,
\* contains, scan and query abort, and so do store and update of a record
\* that serializes; update aborts as well when its SET clause does not
\* compile; clear and initialize never abort
PreparationFailuresFatal ==
    /\ (last.op \in {"load", "delete", "contains", "scan", "query"}
           /\ ~TableExists)
       => (last.res = "panic" /\ panicked)
    /\ (last.op \in {"store", "update"} /\ serialize_data(last.data) # None
           /\ ~TableExists)
       => (last.res = "panic" /\ panicked)
    /\ (last.op = "update" /\ serialize_data(last.data) # None
           /\ InvalidUpdate(last.only))
       => (last.res = "panic" /\ panicked)
    /\ last.op \in {"clear", "initialize"} => (last.res = "ok" /\ ~panicked)

PreparationFailuresFatalWitness ==
    /\ last.op = "delete" /\ last.res = "panic"
    /\ ~TableExists
    /\ panicked

\* C29: no two rows of the table hold the same key, and for every key at
\* most one row matches the statement of load and contains
KeyUnique ==
    /\ \A r1 \in rows, r2 \in rows :
          SqlEq(r1[key_field], r2[key_field]) => r1 = r2
    /\ TableExists
       => \A k \in Keys :
            Cardinality(Matching(rows, BindValue(serialize_key(k)))) <= 1

KeyUniqueWitness ==
    /\ last.op = "store" /\ last.res = "StoreError"
    /\ key_field \in DOMAIN last.data
    /\ last.data[key_field] # last.key
    /\ ~Present(rows, last.key)
    /\ \E r \in RowsOf(rows, last.data[key_field]) :
          r["integer"] # BindValue(serialize_data(last.data)[1]["integer"])

\* C30: load, contains, scan and query leave the rows of the table as they
\* were, whether they return a value, return absent, drop rows or abort
ReadsArePure ==
    last.op \in {"load", "contains", "scan", "query"} => rows = before

ReadsArePureWitness ==
    /\ last.op = "scan" /\ last.res = "ok"
    /\ last.start = 0 /\ last.limit = None
    /\ Cardinality(rows) = 2
    /\ Len(last.out) = 1
    /\ rows = before

\* C31: store(k, _), update(k, _, _) and delete(k), whatever they return and
\* also when they abort, leave every row whose key is not serialize_key(k) in
\* the table as it was, when the serialized map has no entry for the key
SingleKeyWrites ==
    (/\ last.op \in {"store", "update", "delete"}
     /\ \/ serialize_data(last.data) = None
        \/ key_field \notin DOMAIN serialize_data(last.data)[1])
    => \A r \in before \ RowsOf(before, last.key) : r \in rows

SingleKeyWritesWitness ==
    /\ last.op = "update" /\ last.res = "ok"
    /\ Cardinality(before) = 2
    /\ rows # before
    /\ RowsOf(rows, last.key) # RowsOf(before, last.key)
    /\ before \ RowsOf(before, last.key) = rows \ RowsOf(rows, last.key)

\* C32: after store returned ok with any unsigned field value u, the column
\* holds u when u is below 2^(Width-1) and u - 2^Width otherwise, and load
\* returns u; the read cast undoes the write cast on every unsigned value
CastIdentity ==
    /\ (last.op = "store" /\ last.res = "ok")
       => LET u == last.data.unsigned_integer
          IN  /\ RowsOf(rows, last.key) # {}
              /\ \A r \in RowsOf(rows, last.key) :
                    r["unsigned_integer"]
                        = Stored("INTEGER", IF u >= Half THEN u - TwoW ELSE u,
                                 <<>>)
              /\ LoadOutcome(rows, last.key).res = "some"
              /\ LoadOutcome(rows, last.key).out[1].unsigned_integer = u
    /\ last.op = "store"
       => CastU64(CastI64(last.data.unsigned_integer))
              = last.data.unsigned_integer

CastIdentityWitness ==
    /\ last.op = "load" /\ last.res = "some"
    /\ last.out[1].unsigned_integer = UMax
    /\ \E r \in RowsOf(rows, last.key) : r["unsigned_integer"].n = -1

====
